---------------------------- MODULE Spec2Model ----------------------------
(*************************************************************************)
(* A model of src/etc/unicode.py, the generator of the Unicode tables.   *)
(*                                                                       *)
(* Two specifications are given.                                         *)
(*   SpecTables  applies the pure table functions (group_cat,            *)
(*               ungroup_cat, remove_from_wtable, optimize_width_table)  *)
(*               to bounded inputs.                                      *)
(*   Spec        runs the batch pipeline of __main__ on bounded input    *)
(*               files: load_unicode_data, load_properties (the          *)
(*               DerivedNormalizationProps call) and emit_norm_module.   *)
(*                                                                       *)
(* load_special_casing, load_east_asian_width, the other three calls of   *)
(* load_properties and the emit_* functions that only write text are     *)
(* left out: none of them writes a value the properties below read.      *)
(*                                                                       *)
(* Text is modelled as sequences of one-character strings, so that       *)
(* split, strip, startswith, endswith, int(s, 16) and the regular        *)
(* expressions are computed and not assumed.                             *)
(*                                                                       *)
(* The code-point space is scaled down: range(0, 0x110000) becomes       *)
(* 0 .. CodeSpace-1 and the surrogate block (0xd800, 0xdfff) becomes     *)
(* surrogate_codepoints below; code points are written with two hex      *)
(* digits instead of four to six.                                        *)
(*************************************************************************)
EXTENDS Integers, Sequences, FiniteSets, TLC

VARIABLES
    fn,           \* SpecTables: the function applied ("idle" before the call)
    arg_cat,      \* SpecTables: the list / interval table passed in
    arg_wtable,   \* SpecTables: the width table passed in
    arg_val,      \* SpecTables: the code point passed to remove_from_wtable
    result,       \* SpecTables: [raised, value] of the call
    pc,           \* Spec: position of __main__
    nread,        \* Spec: number of input lines consumed so far (all files)
    udict,        \* load_unicode_data: udict (kept after the return: the records parsed)
    range_start,  \* load_unicode_data: range_start
    tables,       \* what load_unicode_data returned
    props,        \* load_properties: props (raw lists, then grouped)
    canon_comp,   \* emit_norm_module: canon_comp
    err           \* the exception that ended the program, "" if none

vars == <<fn, arg_cat, arg_wtable, arg_val, result,
          pc, nread, udict, range_start, tables, props, canon_comp, err>>

-----------------------------------------------------------------------------
(* Bounds of the model *)

\* number of code points of the scaled code-point space (0x110000 in the code)
CodeSpace == 12
\* input lines read over all input files of one run
MaxLines == 5
\* longest list passed to group_cat
MaxLen == 3
\* largest value in the lists and tables passed to the table functions
MaxVal == 4
\* most intervals in an interval table / width table passed in
MaxIv == 3

-----------------------------------------------------------------------------
(* Python values *)

Ok(v) == [raised |-> "", value |-> v]
Raise(e) == [raised |-> e, value |-> <<>>]

Range(s) == {s[i] : i \in DOMAIN s}

Min(S) == CHOOSE x \in S : \A y \in S : x <= y

\* sorted(S) for a set of integers
RECURSIVE sorted(_)
sorted(S) == IF S = {} THEN <<>> ELSE <<Min(S)>> \o sorted(S \ {Min(S)})

\* t[a:b] for 0 <= a <= b
Slice(t, a, b) == SubSeq(t, a + 1, IF b < Len(t) THEN b ELSE Len(t))

-----------------------------------------------------------------------------
(* group_cat, ungroup_cat *)

\* letters = sorted(set(cat))
Letters(cat) == sorted(Range(cat))

\* if letter == cur_end + 1
ExtendsRunWide(letter, cur_end) == letter <= cur_end + 2
ExtendsRun(letter, cur_end) == letter = cur_end + 1

\* the for loop of group_cat, from position i of letters
RECURSIVE group_cat_loop(_, _, _, _, _)
group_cat_loop(letters, i, cur_start, cur_end, cat_out) ==
    IF i > Len(letters)
    THEN Ok(Append(cat_out, <<cur_start, cur_end>>))
    ELSE LET letter == letters[i] IN
         IF ~(letter > cur_end)
         THEN Raise("AssertionError")
         ELSE IF ExtendsRun(letter, cur_end)
              THEN group_cat_loop(letters, i + 1, cur_start, letter, cat_out)
              ELSE group_cat_loop(letters, i + 1, letter, letter,
                                  Append(cat_out, <<cur_start, cur_end>>))

group_cat(cat) ==
    LET letters == Letters(cat) IN
    IF letters = <<>>
    THEN Raise("IndexError")          \* letters.pop(0) on an empty list
    ELSE group_cat_loop(Tail(letters), 1, letters[1], letters[1], <<>>)

\* while lo <= hi: cat_out.append(lo); lo += 1
RECURSIVE expand(_, _)
expand(lo, hi) == IF lo <= hi THEN <<lo>> \o expand(lo + 1, hi) ELSE <<>>

RECURSIVE ungroup_cat(_)
ungroup_cat(cat) ==
    IF cat = <<>> THEN <<>>
    ELSE expand(cat[1][1], cat[1][2]) \o ungroup_cat(Tail(cat))

\* props[prop] = group_cat(ungroup_cat(props[prop]))
regroup(cat) == group_cat(ungroup_cat(cat))

-----------------------------------------------------------------------------
(* remove_from_wtable, optimize_width_table *)

\* wtable_out.append((wt_lo, val-1, ...)); wtable_out.append((val+1, wt_hi, ...))
SplitAtDropsRight(e, val) == <<  <<e[1], val - 1, e[3], e[4]>>  >>
SplitAt(e, val) == << <<e[1], val - 1, e[3], e[4]>>, <<val + 1, e[2], e[3], e[4]>> >>

RECURSIVE remove_loop(_, _, _)
remove_loop(wtable, wtable_out, val) ==
    IF wtable = <<>>
    THEN wtable_out
    ELSE IF wtable[1][2] < val
         THEN remove_loop(Tail(wtable), Append(wtable_out, wtable[1]), val)
         ELSE IF wtable[1][1] > val
              THEN wtable_out \o wtable      \* break; wtable_out.extend(wtable)
              ELSE LET e == wtable[1]
                       wt_lo == e[1]
                       wt_hi == e[2]
                   IN  IF wt_lo = wt_hi /\ wt_hi = val
                       THEN remove_loop(Tail(wtable), wtable_out, val)
                       ELSE IF wt_lo = val
                       THEN remove_loop(Tail(wtable),
                              Append(wtable_out, <<wt_lo + 1, wt_hi, e[3], e[4]>>), val)
                       ELSE IF wt_hi = val
                       THEN remove_loop(Tail(wtable),
                              Append(wtable_out, <<wt_lo, wt_hi - 1, e[3], e[4]>>), val)
                       ELSE remove_loop(Tail(wtable),
                              wtable_out \o SplitAt(e, val), val)

remove_from_wtable(wtable, val) == remove_loop(wtable, <<>>, val)

\* w_this[1] == wtable[0][0] - 1 and w_this[2:3] == wtable[0][2:3]
MergeCond(w_this, w_next) ==
    /\ w_this[2] = w_next[1] - 1
    /\ Slice(w_this, 2, 3) = Slice(w_next, 2, 3)

RECURSIVE optimize_loop(_, _, _)
optimize_loop(w_this, wtable, wtable_out) ==
    IF wtable = <<>>
    THEN Append(wtable_out, w_this)
    ELSE IF MergeCond(w_this, wtable[1])
         THEN LET w_tmp == wtable[1] IN
              optimize_loop(<<w_this[1], w_tmp[2], w_tmp[3], w_tmp[4]>>,
                            Tail(wtable), wtable_out)
         ELSE optimize_loop(wtable[1], Tail(wtable), Append(wtable_out, w_this))

optimize_width_table(wtable) ==
    IF wtable = <<>>
    THEN Raise("IndexError")          \* wtable.pop(0) on an empty list
    ELSE Ok(optimize_loop(wtable[1], Tail(wtable), <<>>))

-----------------------------------------------------------------------------
(* Text: str methods and int(s, 16) on sequences of characters *)

Whitespace == {" ", "\t", "\n", "\r"}

HexChars == <<"0", "1", "2", "3", "4", "5", "6", "7", "8", "9",
              "A", "B", "C", "D", "E", "F">>
LowerHexChars == <<"0", "1", "2", "3", "4", "5", "6", "7", "8", "9",
                   "a", "b", "c", "d", "e", "f">>

WordChars == Range(HexChars) \cup Range(LowerHexChars) \cup
    {"G", "H", "I", "J", "K", "L", "M", "N", "O", "P", "Q", "R", "S", "T",
     "U", "V", "W", "X", "Y", "Z", "g", "h", "i", "j", "k", "l", "m", "n",
     "o", "p", "q", "r", "s", "t", "u", "v", "w", "x", "y", "z", "_"}

\* the characters of s joined into one string (a dict key)
RECURSIVE Str(_)
Str(s) == IF s = <<>> THEN "" ELSE s[1] \o Str(Tail(s))

\* s.split(sep) for a one-character separator
RECURSIVE split(_, _)
split(s, sep) ==
    LET at == {i \in DOMAIN s : s[i] = sep} IN
    IF at = {} THEN <<s>>
    ELSE <<SubSeq(s, 1, Min(at) - 1)>> \o split(SubSeq(s, Min(at) + 1, Len(s)), sep)

\* s.strip()
strip(s) ==
    LET keep == {i \in DOMAIN s : s[i] \notin Whitespace} IN
    IF keep = {} THEN <<>>
    ELSE SubSeq(s, Min(keep), CHOOSE i \in keep : \A j \in keep : j <= i)

\* s.split(): split on runs of whitespace, no empty strings
RECURSIVE split_ws(_)
split_ws(s) ==
    LET t == strip(s)
        ws == {i \in DOMAIN t : t[i] \in Whitespace}
    IN  IF t = <<>> THEN <<>>
        ELSE IF ws = {} THEN <<t>>
        ELSE <<SubSeq(t, 1, Min(ws) - 1)>> \o split_ws(SubSeq(t, Min(ws) + 1, Len(t)))

startswith(s, prefix) ==
    Len(s) >= Len(prefix) /\ SubSeq(s, 1, Len(prefix)) = prefix

endswith(s, suffix) ==
    Len(s) >= Len(suffix) /\ SubSeq(s, Len(s) - Len(suffix) + 1, Len(s)) = suffix

\* the value int(s, 16) raises ValueError for
ValueError == -1

HexVal(ch) ==
    IF ch \in Range(HexChars)
    THEN (CHOOSE i \in 1..16 : HexChars[i] = ch) - 1
    ELSE (CHOOSE i \in 1..16 : LowerHexChars[i] = ch) - 1

RECURSIVE hex_digits(_, _)
hex_digits(t, acc) ==
    IF t = <<>> THEN acc ELSE hex_digits(Tail(t), 16 * acc + HexVal(t[1]))

\* int(s, 16): surrounding whitespace is ignored
int16(s) ==
    LET t == strip(s) IN
    IF t = <<>> \/ \E i \in DOMAIN t : t[i] \notin Range(HexChars) \cup Range(LowerHexChars)
    THEN ValueError
    ELSE hex_digits(t, 0)

-----------------------------------------------------------------------------
(* Program constants *)

\* expanded_categories
expanded_categories ==
    [Lu |-> <<"LC", "L">>, Ll |-> <<"LC", "L">>, Lt |-> <<"LC", "L">>,
     Lm |-> <<"L">>, Lo |-> <<"L">>,
     Mn |-> <<"M">>, Mc |-> <<"M">>, Me |-> <<"M">>,
     Nd |-> <<"N">>, Nl |-> <<"N">>, No |-> <<"No">>,
     Pc |-> <<"P">>, Pd |-> <<"P">>, Ps |-> <<"P">>, Pe |-> <<"P">>,
     Pi |-> <<"P">>, Pf |-> <<"P">>, Po |-> <<"P">>,
     Sm |-> <<"S">>, Sc |-> <<"S">>, Sk |-> <<"S">>, So |-> <<"S">>,
     Zs |-> <<"Z">>, Zl |-> <<"Z">>, Zp |-> <<"Z">>,
     Cc |-> <<"C">>, Cf |-> <<"C">>, Cs |-> <<"C">>, Co |-> <<"C">>,
     Cn |-> <<"C">>]

\* surrogate_codepoints = (0xd800, 0xdfff), scaled
surrogate_codepoints == <<6, 7>>

is_surrogate(n) == surrogate_codepoints[1] <= n /\ n <= surrogate_codepoints[2]

-----------------------------------------------------------------------------
(* load_unicode_data *)

\* the fields of a record: [code_org, name, gencat, combine, bidi, decomp,
\* deci, digit, num, mirror, old, iso, upcase, lowcase, titlecase]
code_org(data)  == data[1]
gencat(data)    == data[3]
combine(data)   == data[4]
decomp(data)    == data[6]
upcase(data)    == data[13]
lowcase(data)   == data[14]
titlecase(data) == data[15]

FirstMarker == <<",", " ", "F", "i", "r", "s", "t", ">">>

\* one pass of the loop over the lines of the file
ReadUnicodeDataLine(line) ==
    LET data == split(line, ";")
        cp == int16(data[1])
        filled == IF range_start >= 0
                  THEN [i \in DOMAIN udict \cup (range_start..(cp - 1)) |->
                           IF i \in range_start..(cp - 1) THEN data ELSE udict[i]]
                  ELSE udict
    IN  IF Len(data) # 15
        THEN UNCHANGED <<udict, range_start, pc, err>>
        ELSE IF cp = ValueError
        THEN /\ pc' = "exit"
             /\ err' = "ValueError"
             /\ UNCHANGED <<udict, range_start>>
        ELSE IF is_surrogate(cp)
        THEN UNCHANGED <<udict, range_start, pc, err>>
        ELSE IF endswith(data[2], FirstMarker)
        THEN /\ udict' = filled
             /\ range_start' = cp
             /\ UNCHANGED <<pc, err>>
        ELSE /\ udict' = [i \in DOMAIN filled \cup {cp} |->
                             IF i = cp THEN data ELSE filled[i]]
             /\ range_start' = -1
             /\ UNCHANGED <<pc, err>>

\* to_lower[code] = (int(lowcase, 16), 0, 0)   if lowcase != "" and code_org != lowcase
HasLower(data) == lowcase(data) # <<>> /\ code_org(data) # lowcase(data)
\* to_upper[code] = (int(upcase, 16), 0, 0)    if upcase != "" and code_org != upcase
HasUpper(data) == upcase(data) # <<>> /\ code_org(data) # upcase(data)
\* to_title[code] = (int(titlecase, 16), 0, 0)
\*                              if titlecase.strip() != "" and code_org != titlecase
HasTitle(data) == strip(titlecase(data)) # <<>> /\ code_org(data) # titlecase(data)

\* the dict a direction's condition and field give: code -> (int(field, 16), 0, 0)
to_lower_of(ud) ==
    [code \in {c \in DOMAIN ud : HasLower(ud[c])} |-> <<int16(lowcase(ud[code])), 0, 0>>]
to_upper_of(ud) ==
    [code \in {c \in DOMAIN ud : HasUpper(ud[c])} |-> <<int16(upcase(ud[code])), 0, 0>>]
to_title_of(ud) ==
    [code \in {c \in DOMAIN ud : HasTitle(ud[c])} |-> <<int16(titlecase(ud[code])), 0, 0>>]

\* seq.append(int(i, 16)) for i in the tokens
hex_seq(tokens) == [i \in DOMAIN tokens |-> int16(tokens[i])]

IsCompat(data) == decomp(data) # <<>> /\ startswith(decomp(data), <<"<">>)
IsCanon(data)  == decomp(data) # <<>> /\ ~startswith(decomp(data), <<"<">>)

compat_of(ud) ==
    [code \in {c \in DOMAIN ud : IsCompat(ud[c])} |->
        hex_seq(Tail(split_ws(decomp(ud[code]))))]
canon_of(ud) ==
    [code \in {c \in DOMAIN ud : IsCanon(ud[c])} |->
        hex_seq(split_ws(decomp(ud[code])))]

\* [gencat, "Assigned"] + expanded_categories.get(gencat, [])
cats_of(data) ==
    LET g == Str(gencat(data)) IN
    <<g, "Assigned">> \o
    (IF g \in DOMAIN expanded_categories THEN expanded_categories[g] ELSE <<>>)

\* the codes appended to gencats[cat], in the order of the loop; a category
\* named twice by cats_of receives the code twice
RECURSIVE appended(_, _, _)
appended(ud, codes, cat) ==
    IF codes = <<>> THEN <<>>
    ELSE LET cs == cats_of(ud[codes[1]])
             n == Cardinality({i \in DOMAIN cs : cs[i] = cat})
         IN  [i \in 1..n |-> codes[1]] \o appended(ud, Tail(codes), cat)

raw_gencats(ud) ==
    LET codes == sorted(DOMAIN ud)
        keys == UNION {Range(cats_of(ud[c])) : c \in DOMAIN ud}
    IN  [cat \in keys |-> appended(ud, codes, cat)]

\* combines[combine].append(code)   if combine != "0"
raw_combines(ud) ==
    LET marked == {c \in DOMAIN ud : combine(ud[c]) # <<"0">>}
        keys == {Str(combine(ud[c])) : c \in marked}
    IN  [k \in keys |-> sorted({c \in marked : Str(combine(ud[c])) = k})]

\* gen_unassigned
gen_unassigned_all(assigned) ==
    sorted({i \in 0..(CodeSpace - 1) : i \notin Range(assigned)})
gen_unassigned(assigned) ==
    sorted({i \in 0..(surrogate_codepoints[1] - 1) : i \notin Range(assigned)}) \o
    sorted({i \in (surrogate_codepoints[2] + 1)..(CodeSpace - 1) : i \notin Range(assigned)})

\* group_cats: None when some group_cat raised, else the grouped dict
group_cats_raised(cats) ==
    LET bad == {k \in DOMAIN cats : group_cat(cats[k]).raised # ""} IN
    IF bad = {} THEN "" ELSE group_cat(cats[CHOOSE k \in bad : TRUE]).raised
group_cats(cats) == [k \in DOMAIN cats |-> group_cat(cats[k]).value]

\* to_combines: (lo, hi, comb) triples sorted by lo
to_combines(combs) ==
    LET triples == UNION { { <<combs[k][i][1], combs[k][i][2], k>> : i \in DOMAIN combs[k] } :
                           k \in DOMAIN combs }
        los == sorted({t[1] : t \in triples})
    IN  [i \in DOMAIN los |-> CHOOSE t \in triples : t[1] = los[i]]

\* every int(..., 16) of the second loop succeeds
AllParsed(ud) ==
    /\ \A c \in DOMAIN to_lower_of(ud) : to_lower_of(ud)[c][1] # ValueError
    /\ \A c \in DOMAIN to_upper_of(ud) : to_upper_of(ud)[c][1] # ValueError
    /\ \A c \in DOMAIN to_title_of(ud) : to_title_of(ud)[c][1] # ValueError
    /\ \A c \in DOMAIN canon_of(ud) : ValueError \notin Range(canon_of(ud)[c])
    /\ \A c \in DOMAIN compat_of(ud) : ValueError \notin Range(compat_of(ud)[c])

\* the loop over udict and the rest of load_unicode_data: [raised, value]
compile_unicode_data(ud) ==
    LET raw == raw_gencats(ud) IN
    IF ~AllParsed(ud) THEN Raise("ValueError")
    ELSE IF "Assigned" \notin DOMAIN raw THEN Raise("KeyError")
    ELSE LET cn == gen_unassigned(raw["Assigned"])
             \* gencats["Cn"] = ...; del(gencats["Assigned"])
             keys == (DOMAIN raw \cup {"Cn"}) \ {"Assigned"}
             with_cn == [k \in keys |-> IF k = "Cn" THEN cn ELSE raw[k]]
         IN  IF "C" \notin keys THEN Raise("KeyError")
             ELSE LET \* gencats["C"].extend(gencats["Cn"])
                      gcs == [with_cn EXCEPT !["C"] = @ \o cn]
                      cmb == raw_combines(ud)
                  IN  IF group_cats_raised(gcs) # "" THEN Raise(group_cats_raised(gcs))
                      ELSE IF group_cats_raised(cmb) # "" THEN Raise(group_cats_raised(cmb))
                      ELSE Ok([canon_decomp  |-> canon_of(ud),
                               compat_decomp |-> compat_of(ud),
                               gencats       |-> group_cats(gcs),
                               combines      |-> to_combines(group_cats(cmb)),
                               to_upper      |-> to_upper_of(ud),
                               to_lower      |-> to_lower_of(ud),
                               to_title      |-> to_title_of(ud)])

-----------------------------------------------------------------------------
(* load_properties *)

\* the first position at or after i of s that holds no character of set
RECURSIVE skip(_, _, _)
skip(s, i, set) == IF i <= Len(s) /\ s[i] \in set THEN skip(s, i + 1, set) ELSE i

NoMatch == [ok |-> FALSE, lo |-> <<>>, hi |-> <<>>, prop |-> <<>>]

\* from position i: " *; *(\w+)"
match_tail(s, i, lo, hi) ==
    LET semi == skip(s, i, {" "})
        name == skip(s, semi + 1, {" "})
        stop == skip(s, name, WordChars)
    IN  IF semi <= Len(s) /\ s[semi] = ";" /\ stop > name
        THEN [ok |-> TRUE, lo |-> lo, hi |-> hi, prop |-> SubSeq(s, name, stop - 1)]
        ELSE NoMatch

\* re1 = "^ *([0-9A-F]+) *; *(\w+)": d_lo = d_hi = group 1, prop = group 2
re1_match(s) ==
    LET a == skip(s, 1, {" "})
        b == skip(s, a, Range(HexChars))
    IN  IF b > a
        THEN match_tail(s, b, SubSeq(s, a, b - 1), SubSeq(s, a, b - 1))
        ELSE NoMatch

\* re2 = "^ *([0-9A-F]+)\.\.([0-9A-F]+) *; *(\w+)"
re2_match(s) ==
    LET a == skip(s, 1, {" "})
        b == skip(s, a, Range(HexChars))
        c == skip(s, b + 2, Range(HexChars))
    IN  IF b > a /\ b + 1 <= Len(s) /\ s[b] = "." /\ s[b + 1] = "." /\ c > b + 2
        THEN match_tail(s, c, SubSeq(s, a, b - 1), SubSeq(s, b + 2, c - 1))
        ELSE NoMatch

\* one pass of the loop over the lines of the file: the new props
read_property_line(ps, line, interestingprops) ==
    LET m == IF re1_match(line).ok THEN re1_match(line) ELSE re2_match(line)
        prop == Str(m.prop)
        d == <<int16(m.lo), int16(m.hi)>>
    IN  IF ~m.ok THEN ps
        ELSE IF interestingprops # {} /\ prop \notin interestingprops THEN ps
        ELSE [k \in DOMAIN ps \cup {prop} |->
                 IF k = prop
                 THEN (IF prop \in DOMAIN ps THEN ps[prop] ELSE <<>>) \o <<d>>
                 ELSE ps[k]]

\* for prop in props: props[prop] = group_cat(ungroup_cat(props[prop]))
regroup_props(ps) ==
    LET bad == {k \in DOMAIN ps : regroup(ps[k]).raised # ""} IN
    IF bad # {} THEN Raise(regroup(ps[CHOOSE k \in bad : TRUE]).raised)
    ELSE Ok([k \in DOMAIN ps |-> regroup(ps[k]).value])

-----------------------------------------------------------------------------
(* emit_norm_module *)

\* True in map(lambda (lo, hi): lo <= char <= hi, comp_exclusions)
NeverExcluded(char, comp_exclusions) == FALSE
Excluded(char, comp_exclusions) ==
    \E i \in DOMAIN comp_exclusions :
        comp_exclusions[i][1] <= char /\ char <= comp_exclusions[i][2]

\* the loop over canon_keys, in ascending order
RECURSIVE comp_loop(_, _, _, _)
comp_loop(canon, canon_keys, comp_exclusions, comp) ==
    IF canon_keys = <<>> THEN comp
    ELSE LET char == canon_keys[1]
             dec == canon[char]
         IN  IF Excluded(char, comp_exclusions) \/ Len(dec) # 2
             THEN comp_loop(canon, Tail(canon_keys), comp_exclusions, comp)
             ELSE comp_loop(canon, Tail(canon_keys), comp_exclusions,
                    [k \in DOMAIN comp \cup {dec[1]} |->
                        IF k = dec[1]
                        THEN (IF k \in DOMAIN comp THEN comp[k] ELSE <<>>) \o << <<dec[2], char>> >>
                        ELSE comp[k]])

emit_norm_module(canon, norm_props) ==
    IF "Full_Composition_Exclusion" \notin DOMAIN norm_props
    THEN Raise("KeyError")
    ELSE Ok(comp_loop(canon, sorted(DOMAIN canon),
                      norm_props["Full_Composition_Exclusion"], <<>>))

-----------------------------------------------------------------------------
(* Inputs of the table functions *)

\* lists of code points, duplicates and any order included
Lists == UNION {[1..n -> 0..MaxVal] : n \in 0..MaxLen}

\* interval tables of at most n intervals within from..MaxVal, sorted by lo and
\* disjoint, consecutive intervals at least gap values apart
RECURSIVE TablesFrom(_, _, _)
TablesFrom(from, n, gap) ==
    {<<>>} \cup
    (IF n = 0 THEN {}
     ELSE UNION { UNION { { <<  <<lo, hi>>  >> \o rest :
                            rest \in TablesFrom(hi + 1 + gap, n - 1, gap) } :
                          hi \in lo..MaxVal } :
                  lo \in from..MaxVal })

\* coalesced interval tables: no two consecutive intervals touch
CoalescedTables == TablesFrom(0, MaxIv, 1)

\* the (non_cjk_width, cjk_width) pairs
Payloads == { <<1, 1>>, <<1, 2>>, <<2, 2>> }

\* sorted disjoint width tables; neighbours may touch
WidthTables ==
    UNION { { [i \in 1..Len(T) |-> <<T[i][1], T[i][2], p[i][1], p[i][2]>>] :
              p \in [1..Len(T) -> Payloads] } :
            T \in TablesFrom(0, MaxIv, 0) }

-----------------------------------------------------------------------------
(* SpecTables: one call of a table function *)

NoTables == [canon_decomp |-> <<>>, compat_decomp |-> <<>>, gencats |-> <<>>,
             combines |-> <<>>, to_upper |-> <<>>, to_lower |-> <<>>,
             to_title |-> <<>>]

Init ==
    /\ fn = "idle"
    /\ arg_cat = <<>>
    /\ arg_wtable = <<>>
    /\ arg_val = 0
    /\ result = Ok(<<>>)
    /\ pc = "load_unicode_data"
    /\ nread = 0
    /\ udict = <<>>
    /\ range_start = -1
    /\ tables = NoTables
    /\ props = <<>>
    /\ canon_comp = <<>>
    /\ err = ""

mainVars == <<pc, nread, udict, range_start, tables, props, canon_comp, err>>
callVars == <<fn, arg_cat, arg_wtable, arg_val, result>>

CallGroupCat ==
    /\ fn = "idle"
    /\ \E cat \in Lists :
          /\ arg_cat' = cat
          /\ result' = group_cat(cat)
    /\ fn' = "group_cat"
    /\ UNCHANGED <<arg_wtable, arg_val, mainVars>>

\* group_cat(ungroup_cat(T)), as load_properties applies it
CallRegroup ==
    /\ fn = "idle"
    /\ \E T \in CoalescedTables :
          /\ arg_cat' = T
          /\ result' = regroup(T)
    /\ fn' = "regroup"
    /\ UNCHANGED <<arg_wtable, arg_val, mainVars>>

CallRemove ==
    /\ fn = "idle"
    /\ \E wt \in WidthTables, val \in 0..MaxVal :
          /\ arg_wtable' = wt
          /\ arg_val' = val
          /\ result' = Ok(remove_from_wtable(wt, val))
    /\ fn' = "remove_from_wtable"
    /\ UNCHANGED <<arg_cat, mainVars>>

CallOptimize ==
    /\ fn = "idle"
    /\ \E wt \in WidthTables :
          /\ arg_wtable' = wt
          /\ result' = optimize_width_table(wt)
    /\ fn' = "optimize_width_table"
    /\ UNCHANGED <<arg_cat, arg_val, mainVars>>

NextTables == CallGroupCat \/ CallRegroup \/ CallRemove \/ CallOptimize

SpecTables == Init /\ [][NextTables]_vars

-----------------------------------------------------------------------------
(* Input files *)

\* a code point as the data files write it ("%04X", two digits here)
Hex2(n) == <<HexChars[(n \div 16) + 1], HexChars[(n % 16) + 1]>>

RECURSIVE join(_, _)
join(fields, sep) ==
    IF Len(fields) = 1 THEN fields[1]
    ELSE fields[1] \o <<sep>> \o join(Tail(fields), sep)

\* a record of UnicodeData.txt: fifteen fields, then the line terminator
UnicodeDataLine(code, name, gc, comb, dec, up, lo, ti) ==
    join(<<Hex2(code), name, gc, comb, <<"L">>, dec, <<>>, <<>>, <<>>, <<"N">>,
           <<>>, <<>>, up, lo, ti>>, ";") \o <<"\n">>

PlainName == <<"A">>
FirstName == <<"<", "R", ",", " ", "F", "i", "r", "s", "t", ">">>
LastName  == <<"<", "R", ",", " ", "L", "a", "s", "t", ">">>

\* the lines UnicodeData.txt is made of
UnicodeDataLines ==
    { \* a control character
      UnicodeDataLine(0, PlainName, <<"C", "c">>, <<"0">>, <<>>, <<>>, <<>>, <<>>),
      \* an uppercase letter with a singleton canonical decomposition
      UnicodeDataLine(1, PlainName, <<"L", "u">>, <<"0">>, Hex2(10), <<>>, Hex2(2), <<>>),
      \* a lowercase letter; its lowercase field names the letter itself
      UnicodeDataLine(2, PlainName, <<"L", "l">>, <<"0">>, <<>>, Hex2(1), Hex2(2), Hex2(1)),
      \* a titlecase letter: it is its own titlecase (as U+01C5 is)
      UnicodeDataLine(3, PlainName, <<"L", "t">>, <<"0">>, <<>>, Hex2(1), Hex2(2), Hex2(3)),
      \* a First/Last pair whose span holds the surrogate block
      UnicodeDataLine(4, FirstName, <<"L", "o">>, <<"0">>, <<>>, <<>>, <<>>, <<>>),
      UnicodeDataLine(9, LastName, <<"L", "o">>, <<"0">>, <<>>, <<>>, <<>>, <<>>),
      \* an other-number with a compatibility decomposition
      UnicodeDataLine(5, PlainName, <<"N", "o">>, <<"0">>,
                      <<"<", "c", ">", " ">> \o Hex2(1) \o <<" ">> \o Hex2(2), <<>>, <<>>, <<>>),
      \* a surrogate
      UnicodeDataLine(6, PlainName, <<"C", "s">>, <<"0">>, <<>>, <<>>, <<>>, <<>>),
      \* a decimal digit
      UnicodeDataLine(8, PlainName, <<"N", "d">>, <<"0">>, <<>>, <<>>, <<>>, <<>>),
      \* two code points with the same two-element canonical decomposition
      UnicodeDataLine(10, PlainName, <<"L", "l">>, <<"0">>,
                      Hex2(1) \o <<" ">> \o Hex2(2), Hex2(1), <<>>, <<>>),
      UnicodeDataLine(11, PlainName, <<"M", "n">>, <<"9">>,
                      Hex2(1) \o <<" ">> \o Hex2(2), <<>>, <<>>, <<>>),
      \* not a record
      <<"#", "\n">> }

ExclusionName == <<"F", "u", "l", "l", "_", "C", "o", "m", "p", "o", "s", "i", "t", "i", "o", "n", "_", "E", "x", "c", "l", "u", "s", "i", "o", "n">>

\* the lines DerivedNormalizationProps.txt is made of
PropertyLines ==
    { Hex2(11) \o <<" ", ";", " ">> \o ExclusionName \o <<"\n">>,
      Hex2(6) \o <<".", ".">> \o Hex2(9) \o <<" ", ";", " ">> \o ExclusionName \o <<"\n">>,
      Hex2(1) \o <<".", ".">> \o Hex2(2) \o <<" ", ";", " ">> \o <<"N", "F", "D", "_", "Q", "C">> \o <<"\n">>,
      <<"#", " ", "c", "\n">> }

\* load_properties("DerivedNormalizationProps.txt", ["Full_Composition_Exclusion"])
norm_interesting == {"Full_Composition_Exclusion"}

-----------------------------------------------------------------------------
(* Spec: __main__ *)

ReadLine ==
    /\ pc = "load_unicode_data"
    /\ nread < MaxLines
    /\ \E line \in UnicodeDataLines : ReadUnicodeDataLine(line)
    /\ nread' = nread + 1
    /\ UNCHANGED <<tables, props, canon_comp, callVars>>

\* the end of UnicodeData.txt: the loop over udict, the Cn table, the grouping
EndUnicodeData ==
    /\ pc = "load_unicode_data"
    /\ LET r == compile_unicode_data(udict) IN
       IF r.raised # ""
       THEN /\ pc' = "exit"
            /\ err' = r.raised
            /\ UNCHANGED tables
       ELSE /\ pc' = "load_properties"
            /\ tables' = r.value
            /\ UNCHANGED err
    /\ UNCHANGED <<nread, udict, range_start, props, canon_comp, callVars>>

ReadPropertyLine ==
    /\ pc = "load_properties"
    /\ nread < MaxLines
    /\ \E line \in PropertyLines :
          props' = read_property_line(props, line, norm_interesting)
    /\ nread' = nread + 1
    /\ UNCHANGED <<pc, udict, range_start, tables, canon_comp, err, callVars>>

\* the end of the property file: every property's list is regrouped
EndProperties ==
    /\ pc = "load_properties"
    /\ LET r == regroup_props(props) IN
       IF r.raised # ""
       THEN /\ pc' = "exit"
            /\ err' = r.raised
            /\ UNCHANGED props
       ELSE /\ pc' = "emit_norm_module"
            /\ props' = r.value
            /\ UNCHANGED err
    /\ UNCHANGED <<nread, udict, range_start, tables, canon_comp, callVars>>

EmitNorm ==
    /\ pc = "emit_norm_module"
    /\ LET r == emit_norm_module(tables.canon_decomp, props) IN
       IF r.raised # ""
       THEN /\ pc' = "exit"
            /\ err' = r.raised
            /\ UNCHANGED canon_comp
       ELSE /\ pc' = "done"
            /\ canon_comp' = r.value
            /\ UNCHANGED err
    /\ UNCHANGED <<nread, udict, range_start, tables, props, callVars>>

Next == ReadLine \/ EndUnicodeData \/ ReadPropertyLine \/ EndProperties \/ EmitNorm

Spec == Init /\ [][Next]_vars

-----------------------------------------------------------------------------
(* Properties of the table functions *)

\* the code points an interval table (or width table) covers
Cover(T) == UNION { T[i][1]..T[i][2] : i \in DOMAIN T }

\* sorted ascending by lo, pairwise disjoint, every interval non-empty
SortedDisjoint(T) ==
    /\ \A i \in DOMAIN T : T[i][1] <= T[i][2]
    /\ \A i, j \in DOMAIN T : i < j => T[i][2] < T[j][1]

\* no two consecutive intervals satisfy hi_a + 1 == lo_b
NoneAdjacent(T) == \A i \in DOMAIN T : i + 1 \in DOMAIN T => T[i][2] + 1 # T[i+1][1]

\* the (non_cjk_width, cjk_width) pairs a width table holds for code point c
PairsAt(wt, c) == { <<wt[i][3], wt[i][4]>> : i \in {k \in DOMAIN wt : wt[k][1] <= c /\ c <= wt[k][2]} }

\* C1: optimize_width_table leaves the (non_cjk_width, cjk_width) pair found
\* for every code point unchanged (it merges only contiguous intervals that
\* carry an identical pair).
C1_OptimizePreservesPairs ==
    (fn = "optimize_width_table" /\ arg_wtable # <<>>) =>
        /\ result.raised = ""
        /\ \A c \in 0..MaxVal : PairsAt(result.value, c) = PairsAt(arg_wtable, c)

\* C2: for every non-empty list, group_cat returns intervals sorted by lo,
\* pairwise disjoint and maximally coalesced, whose union is exactly the set
\* of input values.
C2_GroupCatCoalesces ==
    (fn = "group_cat" /\ arg_cat # <<>>) =>
        /\ result.raised = ""
        /\ SortedDisjoint(result.value)
        /\ NoneAdjacent(result.value)
        /\ Cover(result.value) = Range(arg_cat)

\* a call on an unsorted three-element list that both merged and split
C2_Witness ==
    /\ fn = "group_cat"
    /\ Len(arg_cat) = 3
    /\ arg_cat[1] > arg_cat[2]
    /\ result.raised = ""
    /\ Len(result.value) = 2
    /\ \E i \in 1..2 : result.value[i][1] < result.value[i][2]

\* what remove_from_wtable is specified to return: the interval holding m is
\* replaced, in place, by its remainder; all else is kept in order
RemovalOf(wt, m) ==
    LET holds == {k \in DOMAIN wt : wt[k][1] <= m /\ m <= wt[k][2]} IN
    IF holds = {} THEN wt
    ELSE LET k == CHOOSE x \in holds : TRUE
             e == wt[k]
             left  == IF e[1] < m THEN << <<e[1], m - 1, e[3], e[4]>> >> ELSE <<>>
             right == IF m < e[2] THEN << <<m + 1, e[2], e[3], e[4]>> >> ELSE <<>>
         IN  SubSeq(wt, 1, k - 1) \o left \o right \o SubSeq(wt, k + 1, Len(wt))

\* C3: remove_from_wtable on a sorted disjoint table splits the interval that
\* holds m into [lo,m-1] and [m+1,hi] (m strictly inside), shrinks it (m an
\* endpoint) or drops it ([m,m]), in place and with the original payload;
\* every other interval is returned unchanged and in order, and a table with
\* no interval holding m is returned unchanged.
C3_RemovePoint ==
    fn = "remove_from_wtable" =>
        /\ result.value = RemovalOf(arg_wtable, arg_val)
        /\ Cover(result.value) = Cover(arg_wtable) \ {arg_val}

\* m strictly inside the middle interval of a three-interval table
C3_Witness ==
    /\ fn = "remove_from_wtable"
    /\ Len(arg_wtable) = 3
    /\ arg_wtable[2][1] < arg_val
    /\ arg_val < arg_wtable[2][2]
    /\ Len(result.value) = 4

\* C4: group_cat(ungroup_cat(T)) == T for any coalesced interval table T,
\* the empty table included.
C4_RegroupIsIdentity ==
    fn = "regroup" => result = Ok(arg_cat)

\* C7: a list passed to group_cat that holds the same code point twice, or
\* that is not strictly increasing, is rejected with an assertion error.
C7_GroupCatRejectsDisorder ==
    (/\ fn = "group_cat"
     /\ \E i \in DOMAIN arg_cat : i + 1 \in DOMAIN arg_cat /\ arg_cat[i] >= arg_cat[i+1])
        => result.raised = "AssertionError"

-----------------------------------------------------------------------------
(* Properties of the pipeline *)

\* load_unicode_data has returned its tables
Returned == tables # NoTables

\* the code points the table of category k covers
CoverOf(k) == IF k \in DOMAIN tables.gencats THEN Cover(tables.gencats[k]) ELSE {}

\* the two-letter general categories a record can carry
AssignedCats == DOMAIN expanded_categories \ {"Cn"}

InNoAssignedTable(c) == \A k \in AssignedCats : c \notin CoverOf(k)

\* C5: after load_unicode_data, a code point is covered by the Cn table iff
\* it is not a surrogate and no table of an assigned general category covers
\* it, which is the case iff no record for it was parsed; and every code point
\* covered by Cn is covered by C.
C5_CnIsUnassigned ==
    Returned =>
        /\ \A c \in 0..(CodeSpace - 1) :
              /\ c \in CoverOf("Cn") <=> (~is_surrogate(c) /\ InNoAssignedTable(c))
              /\ InNoAssignedTable(c) <=> c \notin DOMAIN udict
        /\ CoverOf("Cn") \subseteq CoverOf("C")

\* records on both sides of the surrogate block and inside it (a First/Last
\* pair spanning it), with unassigned code points left over
C5_Witness ==
    /\ Returned
    /\ surrogate_codepoints[1] \in DOMAIN udict
    /\ 5 \in DOMAIN udict
    /\ 1 \in CoverOf("Cn")
    /\ 10 \in CoverOf("Cn")

\* C6: no simple case mapping (uppercase, lowercase, titlecase) maps a code
\* point to itself.
C6_NoSelfMapping ==
    Returned =>
        /\ \A c \in DOMAIN tables.to_upper : tables.to_upper[c][1] # c
        /\ \A c \in DOMAIN tables.to_lower : tables.to_lower[c][1] # c
        /\ \A c \in DOMAIN tables.to_title : tables.to_title[c][1] # c

\* the composition entries (a, b, c): (b, c) is stored under key a
Entries ==
    UNION { { <<a, canon_comp[a][i][1], canon_comp[a][i][2]>> : i \in DOMAIN canon_comp[a] } :
            a \in DOMAIN canon_comp }

\* what looking up the pair (a, b) can yield
Lookup(a, b) == { t[3] : t \in {x \in Entries : x[1] = a /\ x[2] = b} }

InExclusionSet(c) == c \in Cover(props["Full_Composition_Exclusion"])

\* c has a two-element canonical decomposition and is not excluded
Composable(c) ==
    /\ c \in DOMAIN tables.canon_decomp
    /\ Len(tables.canon_decomp[c]) = 2
    /\ ~InExclusionSet(c)

\* no entry is stored for an excluded code point, a compatibility
\* decomposition or a decomposition of length other than 2
OnlyComposableStored ==
    \A t \in Entries :
        /\ Composable(t[3])
        /\ t[3] \notin DOMAIN tables.compat_decomp
        /\ tables.canon_decomp[t[3]] = <<t[1], t[2]>>

\* C8 as stated: for every non-excluded c with canonical decomposition (a, b)
\* the composition table holds (b, c) under a and looking up (a, b) yields
\* exactly c; nothing else is stored.
C8_ComposeYieldsExactlyC ==
    pc = "done" =>
        /\ \A c \in DOMAIN tables.canon_decomp :
              Composable(c) =>
                 LET d == tables.canon_decomp[c] IN
                 /\ <<d[1], d[2], c>> \in Entries
                 /\ Lookup(d[1], d[2]) = {c}
        /\ OnlyComposableStored

\* C8, amended: for every non-excluded c with canonical decomposition (a, b)
\* the composition table holds (b, c) under a, and looking up (a, b) yields
\* c and the other non-excluded code points with the same decomposition, if
\* any; nothing else is stored.
C8_ComposeYieldsAllC ==
    pc = "done" =>
        /\ \A c \in DOMAIN tables.canon_decomp :
              Composable(c) =>
                 LET d == tables.canon_decomp[c] IN
                 /\ <<d[1], d[2], c>> \in Entries
                 /\ Lookup(d[1], d[2]) =
                       {x \in DOMAIN tables.canon_decomp :
                           Composable(x) /\ tables.canon_decomp[x] = d}
        /\ OnlyComposableStored

\* one code point composed, another with a two-element canonical
\* decomposition left out because it is excluded, and a third with a
\* two-element compatibility decomposition
C8_Witness ==
    /\ pc = "done"
    /\ Entries # {}
    /\ \E c \in DOMAIN tables.canon_decomp :
          Len(tables.canon_decomp[c]) = 2 /\ InExclusionSet(c)
    /\ \E c \in DOMAIN tables.compat_decomp :
          Len(tables.compat_decomp[c]) = 2 /\ ~InExclusionSet(c)

\* the code points a case map stores
CaseMapPoints(m) == DOMAIN m \cup {m[c][1] : c \in DOMAIN m}

\* the code points a decomposition map stores
DecompPoints(m) == DOMAIN m \cup UNION {Range(m[c]) : c \in DOMAIN m}

\* every code point the compiled tables store
StoredPoints ==
    UNION {CoverOf(k) : k \in DOMAIN tables.gencats}
    \cup Cover(tables.combines)
    \cup CaseMapPoints(tables.to_upper) \cup CaseMapPoints(tables.to_lower)
    \cup CaseMapPoints(tables.to_title)
    \cup DecompPoints(tables.canon_decomp) \cup DecompPoints(tables.compat_decomp)
    \cup (IF pc \in {"emit_norm_module", "done"}
          THEN UNION {Cover(props[k]) : k \in DOMAIN props} ELSE {})
    \cup UNION { {t[1], t[2], t[3]} : t \in Entries }

\* C9: no compiled table ever stores a code point of the surrogate block.
C9_NoSurrogateStored ==
    \A c \in StoredPoints : ~is_surrogate(c)

\* the general category of the record parsed for code point c
PrimaryTag(c) == Str(gencat(udict[c]))

\* C10: after load_unicode_data every code point with primary tag g is
\* covered by the table of g, by the one-letter group table of g's first
\* letter, and by LC when g is Lu, Ll or Lt.
C10_SuperCategoriesCover ==
    Returned =>
        \A c \in DOMAIN udict :
            /\ c \in CoverOf(PrimaryTag(c))
            /\ c \in CoverOf(Str(<<gencat(udict[c])[1]>>))
            /\ PrimaryTag(c) \in {"Lu", "Ll", "Lt"} => c \in CoverOf("LC")

=============================================================================
